---- MODULE Spec2Model ----
(***************************************************************************)
(* State-machine model of the allocation strategies of the repository.     *)
(*                                                                         *)
(*  - the regime engine (risk-off / risk-on with cooldown counter),        *)
(*    src/942e3668-4c06-4cd1-88b3-64a6e69c4c1b/main.py                     *)
(*  - the single-asset position manager (BTC-USD),                         *)
(*    src/2b65fdd1-70f6-49ad-8f38-899f163ae4fe/main.py                     *)
(*  - the SMA crossover strategy (AAPL),                                   *)
(*    src/755b988d-4aec-4527-9038-019b2e8c0433/main.py                     *)
(*  - the random picker, src/84dcff2e-8d03-48ba-800a-bc1a299808b5/main.py  *)
(*  - the fixed short, src/f2e5e8d7-41a5-499d-b218-3b8fb4d50a71/main.py    *)
(*                                                                         *)
(* The momentum scores, which the engine ranks and compares, and the       *)
(* weights of an allocation are IEEE 754 doubles computed operation by     *)
(* operation as Python computes them.  Values returned by the host         *)
(* platform's indicator library (EMA, VWAP, SMA) and the macro series are  *)
(* inputs of a tick.                                                       *)
(***************************************************************************)
EXTENDS Integers, Sequences, FiniteSets, TLC

VARIABLES counter, call, age, count, buy_price, watermark, pm, stateless

vars == <<counter, call, age, count, buy_price, watermark, pm, stateless>>

(***************************************************************************)
(* Bounds of the model.                                                    *)
(***************************************************************************)
\* windows of up to mom_long + ExtraBars bars are supplied
ExtraBars == 1
\* the history counter `age' (ticks since the last trigger) saturates here
AgeCap == 4

Abs(x) == IF x < 0 THEN -x ELSE x

(***************************************************************************)
(* IEEE 754 binary64 arithmetic, as Python's float: the momentum scores    *)
(* and the weights are computed and compared in it.  Natural numbers of    *)
(* any size are sequences of limbs in base 2^15, lowest limb first,        *)
(* without leading zero limbs.                                             *)
(***************************************************************************)
Base == 2 ^ 15

RECURSIVE BFromInt(_)
BFromInt(n) == IF n = 0 THEN <<>> ELSE <<n % Base>> \o BFromInt(n \div Base)

RECURSIVE BTrim(_)
BTrim(a) ==
    IF a = <<>> THEN a
    ELSE IF a[Len(a)] = 0 THEN BTrim(SubSeq(a, 1, Len(a) - 1))
    ELSE a

\* a + b + c for a carry c
RECURSIVE BAdd(_, _, _)
BAdd(a, b, c) ==
    IF a = <<>> /\ b = <<>> THEN (IF c = 0 THEN <<>> ELSE <<c>>)
    ELSE LET x == (IF a = <<>> THEN 0 ELSE Head(a))
                  + (IF b = <<>> THEN 0 ELSE Head(b)) + c
         IN  <<x % Base>>
             \o BAdd(IF a = <<>> THEN a ELSE Tail(a),
                     IF b = <<>> THEN b ELSE Tail(b), x \div Base)

\* a - b - borrow for a >= b + borrow, before trimming
RECURSIVE BSub(_, _, _)
BSub(a, b, borrow) ==
    IF a = <<>> THEN <<>>
    ELSE LET x == Head(a) - (IF b = <<>> THEN 0 ELSE Head(b)) - borrow
         IN  <<IF x < 0 THEN x + Base ELSE x>>
             \o BSub(Tail(a), IF b = <<>> THEN b ELSE Tail(b),
                     IF x < 0 THEN 1 ELSE 0)

\* -1, 0 or 1 as a < b, a = b or a > b
BCmp(a, b) ==
    LET RECURSIVE At(_)
        At(i) == IF i = 0 THEN 0
                 ELSE IF a[i] < b[i] THEN -1
                 ELSE IF a[i] > b[i] THEN 1
                 ELSE At(i - 1)
    IN  IF Len(a) < Len(b) THEN -1
        ELSE IF Len(a) > Len(b) THEN 1
        ELSE At(Len(a))

\* a * k + c for 0 <= k, c <= Base
RECURSIVE BMulSmall(_, _, _)
BMulSmall(a, k, c) ==
    IF a = <<>> THEN BFromInt(c)
    ELSE LET x == Head(a) * k + c
         IN  <<x % Base>> \o BMulSmall(Tail(a), k, x \div Base)

\* a * b, before trimming
RECURSIVE BMul(_, _)
BMul(a, b) ==
    IF b = <<>> THEN <<>>
    ELSE BAdd(BMulSmall(a, Head(b), 0), <<0>> \o BMul(a, Tail(b)), 0)

\* quotient and remainder of a by k, 0 < k <= Base
BDivSmall(a, k) ==
    LET RECURSIVE Acc(_, _, _)
        Acc(i, rem, q) ==
            IF i = 0 THEN [q |-> BTrim(q), r |-> rem]
            ELSE LET x == rem * Base + a[i]
                 IN  Acc(i - 1, x % k, <<x \div k>> \o q)
    IN  Acc(Len(a), 0, <<>>)

\* quotient and remainder of a by b, for b with a highest limb of at least
\* Base / 2: one quotient limb per limb of a, each found from an estimate of
\* the highest limbs that is never below it
BDivLong(a, b) ==
    LET RECURSIVE Digit(_, _)
        Digit(r, d) ==
            IF BCmp(BTrim(BMulSmall(b, d, 0)), r) > 0 THEN Digit(r, d - 1)
            ELSE d
        Estimate(r) ==
            IF Len(r) < Len(b) THEN 0
            ELSE IF Len(r) = Len(b) THEN r[Len(b)] \div b[Len(b)]
            ELSE IF r[Len(b) + 1] >= b[Len(b)] THEN Base - 1
            ELSE (r[Len(b) + 1] * Base + r[Len(b)]) \div b[Len(b)]
        Capped(d) == IF d > Base - 1 THEN Base - 1 ELSE d
        RECURSIVE Acc(_, _, _)
        Sub(i, r, q, d) ==
            Acc(i - 1, BTrim(BSub(r, BMulSmall(b, d, 0), 0)), <<d>> \o q)
        Acc(i, r, q) ==
            IF i = 0 THEN [q |-> BTrim(q), r |-> r]
            ELSE Sub(i, BTrim(<<a[i]>> \o r), q,
                     Digit(BTrim(<<a[i]>> \o r),
                           Capped(Estimate(BTrim(<<a[i]>> \o r)))))
    IN  Acc(Len(a), <<>>, <<>>)

\* a * 2^k
BShl(a, k) ==
    IF a = <<>> THEN a
    ELSE [i \in 1..(k \div 15) |-> 0] \o BTrim(BMulSmall(a, 2 ^ (k % 15), 0))

\* a \div 2^k for k below the length of a, and whether a bit was shifted out
BShr(a, k) ==
    [q |-> BDivSmall(SubSeq(a, k \div 15 + 1, Len(a)), 2 ^ (k % 15)).q,
     sticky |-> \/ a[k \div 15 + 1] % (2 ^ (k % 15)) # 0
                \/ \E i \in 1..(k \div 15) : a[i] # 0]

\* the number of binary digits of a
BitLen(a) ==
    LET RECURSIVE BitsOf(_)
        BitsOf(n) == IF n = 0 THEN 0 ELSE 1 + BitsOf(n \div 2)
    IN  IF a = <<>> THEN 0 ELSE 15 * (Len(a) - 1) + BitsOf(a[Len(a)])

\* A finite double is <<s, m, e>>, value s * m * 2^e with s = 1 or -1 and
\* 2^52 <= m < 2^53, or DblZero (the scores and the weights stay far from
\* the subnormal and the overflow range; 0.0 and -0.0 compare equal and are
\* one value here).
DblZero == <<0, <<>>, 0>>

\* a significand of 54 binary digits after rounding up is 2^53
DblCarry(s, e, q) ==
    IF BitLen(q) > 53 THEN <<s, BDivSmall(q, 2).q, e + 1>> ELSE <<s, q, e>>

\* high holds the 53 digits to keep and the guard digit below them: round
\* to nearest, ties to the even significand
DblNearest(s, e, high, sticky) ==
    DblCarry(s, e,
             BAdd(BDivSmall(high.q, 2).q, <<>>,
                  IF /\ high.q[1] % 2 = 1
                     /\ (high.sticky \/ sticky \/ high.q[1] % 4 >= 2)
                  THEN 1 ELSE 0))

DblRoundAt(s, m, e, sticky, len) ==
    IF len <= 53 THEN <<s, BShl(m, 53 - len), e - (53 - len)>>
    ELSE DblNearest(s, e + (len - 53), BShr(m, len - 54), sticky)

\* s * m * 2^e (m > 0, plus an inexact rest below the last digit of m when
\* sticky) rounded to the nearest double
DblRound(s, m, e, sticky) == DblRoundAt(s, m, e, sticky, BitLen(m))

\* float(n)
DblOfInt(n) ==
    IF n = 0 THEN DblZero
    ELSE DblRound(IF n < 0 THEN -1 ELSE 1, BFromInt(Abs(n)), 0, FALSE)

\* n / d on Python ints (correctly rounded), 0 < |d| < 2^15
DblDivInt(n, d) ==
    IF n = 0 THEN DblZero
    ELSE DblRound(IF (n < 0) = (d < 0) THEN 1 ELSE -1,
                  BDivSmall(BShl(BFromInt(Abs(n)), 75), Abs(d)).q, -75,
                  BDivSmall(BShl(BFromInt(Abs(n)), 75), Abs(d)).r # 0)

DblQuotient(s, e, d) == DblRound(s, d.q, e, d.r # <<>>)

\* x / y for y # 0: the significands, both of 53 binary digits, are divided
\* to 60 places and the quotient is rounded
DblDiv(x, y) ==
    IF x[1] = 0 THEN DblZero
    ELSE DblQuotient(x[1] * y[1], x[3] - y[3] - 60,
                     BDivLong(BShl(x[2], 67), BShl(y[2], 7)))

DblMul(x, y) ==
    IF x[1] = 0 \/ y[1] = 0 THEN DblZero
    ELSE DblRound(x[1] * y[1], BTrim(BMul(x[2], y[2])), x[3] + y[3], FALSE)

\* sx * a * 2^e + sy * b * 2^e
DblAddAligned(sx, sy, e, a, b) ==
    IF sx # sy /\ a = b THEN DblZero
    ELSE DblRound(IF sx = sy \/ BCmp(a, b) > 0 THEN sx ELSE sy,
                  IF sx = sy THEN BAdd(a, b, 0)
                  ELSE IF BCmp(a, b) > 0 THEN BTrim(BSub(a, b, 0))
                  ELSE BTrim(BSub(b, a, 0)),
                  e, FALSE)

\* x + y; an operand more than 60 binary places below the other is
\* rounded away
DblAdd(x, y) ==
    IF x[1] = 0 THEN y
    ELSE IF y[1] = 0 THEN x
    ELSE IF x[3] - y[3] > 60 THEN x
    ELSE IF y[3] - x[3] > 60 THEN y
    ELSE DblAddAligned(x[1], y[1], IF x[3] < y[3] THEN x[3] ELSE y[3],
                       BShl(x[2], IF x[3] < y[3] THEN 0 ELSE x[3] - y[3]),
                       BShl(y[2], IF x[3] < y[3] THEN y[3] - x[3] ELSE 0))

DblSub(x, y) == DblAdd(x, <<-y[1], y[2], y[3]>>)

\* x < y
DblLt(x, y) ==
    IF x[1] # y[1] THEN x[1] < y[1]
    ELSE IF x[1] = 0 THEN FALSE
    ELSE IF x[3] # y[3] THEN (x[3] < y[3]) = (x[1] = 1)
    ELSE BCmp(x[2], y[2]) = -x[1]

DblGt(x, y) == DblLt(y, x)
DblEq(x, y) == x = y

(***************************************************************************)
(* Configuration of the regime engine (TradingStrategy.__init__).          *)
(***************************************************************************)
tickers == <<"TLT", "EMB", "HYG", "BIL", "TIP", "BND", "AGG", "DTH", "VIG",
             "VYM", "PEY", "BNDX", "VCIT", "UUP", "IEF">>
market_benchmark == "HYG"
momentum_assets == <<"BND", "AGG", "IEF", "TLT", "HYG", "DTH", "VIG", "VYM">>
mom_long == 125
mom_short == 15
inflation_threshold == 3
BaseNum == 3
BaseDen == 10
\* the literal 0.3
base_allocation == DblDivInt(BaseNum, BaseDen)
risk_off_wait_days == 3
Sentinel == -999
ShortWeightNum == 15
ShortWeightDen == 100
TopK == 3

Range(s) == {s[i] : i \in 1..Len(s)}
TickerSet == Range(tickers)


(***************************************************************************)
(* Inputs of a tick of the regime engine.                                  *)
(*                                                                         *)
(* A feed describes the bars of one asset: whether the asset is listed in  *)
(* every bar, its closes (e on the first half of the window, l on the      *)
(* second half, t on the last bar) and the latest value the platform's     *)
(* VWAP(asset, ohlcv, 5) returns: <<"num", v>>, <<"nan", 0>> or            *)
(* <<"none", 0>> (the indicator returned None).                            *)
(***************************************************************************)
Feed(p, e, l, t, vw) == [present |-> p, e |-> e, l |-> l, t |-> t, vw |-> vw]
Num(v) == <<"num", v>>
NaN == <<"nan", 0>>
None == <<"none", 0>>

FMiss  == Feed(FALSE, 1, 1, 1, Num(1))
FNan   == Feed(TRUE, 1, 1, 1, NaN)
FNone  == Feed(TRUE, 1, 1, 1, None)
FFlat  == Feed(TRUE, 1, 1, 1, Num(1))
FUp    == Feed(TRUE, 1, 2, 2, Num(2))
FMix   == Feed(TRUE, 1, 2, 1, Num(1))
FLow   == Feed(TRUE, 1000, 1000, 1000, Num(0))
FEq    == Feed(TRUE, 1000, 1000, 1000, Num(1))
FZeroL == Feed(TRUE, 0, 1, 1, Num(1))
FZeroS == Feed(TRUE, 1, 0, 1, Num(1))
\* 17/10 - 1 and (17/3 - 1) * 0.15 are equal as reals; in doubles the score
\* is -2^-53, below the 0.0 of a flat asset
FRound == Feed(TRUE, 10, 3, 17, Num(17))

Feeds == {FMiss, FNan, FNone, FFlat, FUp, FMix, FLow, FEq, FZeroL, FZeroS, FRound}
DefaultFeeds == {FNan, FFlat, FLow}
PairFeeds == {FMiss, FUp, FLow}

\* the assets whose bars the engine reads: benchmark, momentum universe, pools
ReadAssets == <<"BND", "AGG", "IEF", "TLT", "HYG", "DTH", "VIG", "VYM",
                "TIP", "BIL", "UUP">>

\* a scenario gives every asset the feed d, except a (feed fa) and b (feed fb)
Scenario(d, a, fa, b, fb) == [d |-> d, a |-> a, fa |-> fa, b |-> b, fb |-> fb]

FeedOf(sc, asset) ==
    IF asset = sc.b THEN sc.fb
    ELSE IF asset = sc.a THEN sc.fa
    ELSE sc.d

Uniform(d) == Scenario(d, "BND", d, "BND", d)

UniformScenarios == {Uniform(d) : d \in Feeds}

MixedScenarios ==
    {Scenario(d, ReadAssets[i], fa, ReadAssets[i], fa) :
        d \in DefaultFeeds, i \in 1..Len(ReadAssets), fa \in Feeds}
    \cup
    {Scenario(d, ReadAssets[ij[1]], fa, ReadAssets[ij[2]], fb) :
        d \in DefaultFeeds,
        ij \in {x \in (1..Len(ReadAssets)) \X (1..Len(ReadAssets)) : x[1] < x[2]},
        fa \in PairFeeds, fb \in PairFeeds}

WindowLengths == {0, 1, mom_long - 1} \cup (mom_long .. (mom_long + ExtraBars))
IndicatorValues == {None, NaN, Num(0), Num(1), Num(2), Num(3)}
CpiSeries == {<<>>, <<2>>, <<3>>, <<4>>}

Input(n, sc, vwap50, ema, cpi) ==
    [n |-> n, sc |-> sc, vwap50 |-> vwap50, ema |-> ema, cpi |-> cpi]

\* benchmark / macro variation over uniform universes
BenchInputs ==
    {Input(n, sc, vw, ema, cpi) :
        n \in WindowLengths, sc \in UniformScenarios,
        vw \in {None, Num(1)}, ema \in IndicatorValues, cpi \in CpiSeries}

\* score variation over full windows with a benchmark that does not trigger
ScoreInputs ==
    {Input(mom_long, sc, Num(1), Num(0), cpi) :
        sc \in MixedScenarios, cpi \in {<<2>>, <<3>>}}

Inputs == BenchInputs \cup ScoreInputs

(***************************************************************************)
(* data["ohlcv"]: a sequence of bars, each a mapping asset -> PricePoint.  *)
(* An asset whose feed is not `present' is absent from the first bar.      *)
(***************************************************************************)
CloseAt(f, n, i) ==
    IF i = n THEN f.t ELSE IF i <= n \div 2 THEN f.e ELSE f.l

Listed(in, i) ==
    IF i > 1 THEN TickerSet ELSE {x \in TickerSet : FeedOf(in.sc, x).present}

Bar(in, i) ==
    [a \in Listed(in, i) |-> [close |-> CloseAt(FeedOf(in.sc, a), in.n, i)]]

Ohlcv(in) == [i \in 1..in.n |-> Bar(in, i)]

\* latest value of the platform's VWAP(asset, ohlcv, 5)
Vwap5(in, asset) == FeedOf(in.sc, asset).vw

(***************************************************************************)
(* Results of Python evaluation: a value or a raised exception.            *)
(***************************************************************************)
Val(v) == [k |-> "val", v |-> v]
Raise(e) == [k |-> "raise", v |-> e]
IsRaise(r) == r.k = "raise"

\* len(x) of a Python list, and x[-j]: IndexError when j > len(x)
PyLen(x) == Cardinality(DOMAIN x)
HasNeg(x, j) == j <= PyLen(x)
NegIdx(x, j) == x[PyLen(x) - j + 1]

(***************************************************************************)
(* TradingStrategy._calculate_momentum(asset, ohlcv_data).  vwap is what   *)
(* VWAP(asset, ohlcv_data, 5)[-1] evaluates to.  KeyError and IndexError   *)
(* are caught and give the sentinel; any other exception propagates.       *)
(***************************************************************************)
SentinelScore == DblOfInt(Sentinel)

MomentumScore(prices, vwap) ==
    LET close     == NegIdx(prices, 1)
        ret_long  == DblSub(DblDivInt(NegIdx(prices, 1), NegIdx(prices, mom_long)),
                            DblOfInt(1))
        ret_short == DblSub(DblDivInt(NegIdx(prices, 1), NegIdx(prices, mom_short)),
                            DblOfInt(1))
    IN  DblAdd(DblSub(ret_long,
                      DblMul(ret_short, DblDivInt(ShortWeightNum, ShortWeightDen))),
               DblSub(DblOfInt(vwap[2]), DblOfInt(close)))

CalculateMomentum(asset, ohlcv, vwap) ==
    IF \E i \in DOMAIN ohlcv : asset \notin DOMAIN ohlcv[i]
    THEN Val(SentinelScore)                         \* KeyError, caught
    ELSE LET prices == [i \in DOMAIN ohlcv |-> ohlcv[i][asset].close]
         IN  IF ~HasNeg(prices, 1) THEN Val(SentinelScore)   \* IndexError, caught
             ELSE IF vwap = None THEN Raise("TypeError")     \* None[-1]
             ELSE IF PyLen(prices) < 1 THEN Val(SentinelScore)
             ELSE IF ~HasNeg(prices, mom_long) THEN Val(SentinelScore)
             ELSE IF NegIdx(prices, mom_long) = 0 THEN Raise("ZeroDivisionError")
             ELSE IF ~HasNeg(prices, mom_short) THEN Val(SentinelScore)
             ELSE IF NegIdx(prices, mom_short) = 0 THEN Raise("ZeroDivisionError")
             ELSE IF vwap = NaN THEN Val(SentinelScore)      \* pd.notna fails
             ELSE Val(MomentumScore(prices, vwap))

\* the momentum of every asset of a list, as the engine evaluates them in order
RECURSIVE MomentaFrom(_, _, _)
MomentaFrom(assets, in, i) ==
    IF i > Len(assets) THEN <<>>
    ELSE <<CalculateMomentum(assets[i], Ohlcv(in), Vwap5(in, assets[i]))>>
         \o MomentaFrom(assets, in, i + 1)

Momenta(assets, in) == MomentaFrom(assets, in, 1)

AnyRaise(rs) == \E i \in 1..Len(rs) : IsRaise(rs[i])
FirstRaise(rs) == rs[CHOOSE i \in 1..Len(rs) : IsRaise(rs[i]) /\ \A j \in 1..(i - 1) : ~IsRaise(rs[j])]

(***************************************************************************)
(* max(risk_off_assets, key=...): the first asset of the pool whose score  *)
(* no other asset of the pool exceeds.                                     *)
(***************************************************************************)
RECURSIVE MaxIndex(_, _, _)
MaxIndex(scores, i, best) ==
    IF i > Len(scores) THEN best
    ELSE MaxIndex(scores, i + 1, IF DblGt(scores[i].v, scores[best].v) THEN i ELSE best)

\* (mutant) a macro value equal to the threshold still selects the first pool
RiskOffAssetsAtThreshold(cpi_value) ==
    IF cpi_value <= inflation_threshold THEN <<"TLT", "TIP", "BIL">>
    ELSE <<"BIL", "UUP">>

RiskOffAssets(cpi_value) ==
    IF cpi_value < inflation_threshold THEN <<"TLT", "TIP", "BIL">>
    ELSE <<"BIL", "UUP">>

(***************************************************************************)
(* sorted(yield_assets_momentum, key=yield_assets_momentum.get,            *)
(* reverse=True): a stable sort, descending by score.  Insert(s, x) puts   *)
(* index x after every index already placed whose score is not lower.      *)
(***************************************************************************)
\* (mutant) a later asset with an equal score overtakes an earlier one
ComesBeforeOrTied(scores, x, y) == ~DblLt(scores[x].v, scores[y].v)

ComesBefore(scores, x, y) == DblGt(scores[x].v, scores[y].v)

RECURSIVE Insert(_, _, _)
Insert(scores, s, x) ==
    IF s = <<>> THEN <<x>>
    ELSE IF ComesBefore(scores, x, Head(s)) THEN <<x>> \o s
    ELSE <<Head(s)>> \o Insert(scores, Tail(s), x)

RECURSIVE SortedFrom(_, _, _)
SortedFrom(scores, i, acc) ==
    IF i > Len(scores) THEN acc
    ELSE SortedFrom(scores, i + 1, Insert(scores, acc, i))

SortedDescending(scores) == SortedFrom(scores, 1, <<>>)

Take(s, k) == SubSeq(s, 1, IF Len(s) < k THEN Len(s) ELSE k)

\* top_yield_assets: the first TopK assets of the sorted momentum universe
TopYieldAssets(scores) ==
    LET order == Take(SortedDescending(scores), TopK)
    IN  [i \in 1..Len(order) |-> momentum_assets[order[i]]]

IndexOf(seq, x) == CHOOSE i \in 1..Len(seq) : seq[i] = x

\* (mutant) the best selected score is tested instead of the worst
InsufficientSignalsFirst(top, scores) ==
    \/ Len(top) < 1
    \/ DblEq(scores[IndexOf(momentum_assets, top[1])].v, SentinelScore)

\* len(top) < 1 or yield_assets_momentum[top[-1]] == -999
InsufficientSignals(top, scores) ==
    \/ Len(top) < 1
    \/ DblEq(scores[IndexOf(momentum_assets, top[Len(top)])].v, SentinelScore)

(***************************************************************************)
(* Allocation vectors: TargetAllocation(dict), a mapping from the keys of  *)
(* the dict to weights.                                                    *)
(***************************************************************************)
Only(asset) == [a \in {asset} |-> DblOfInt(1)]
EmptyAllocation == [a \in {} |-> DblZero]
Defensive == Only("BIL")

\* the weights of the keys from the i-th on added to acc one after the
\* other, each sum rounded
RECURSIVE SumOver(_, _, _, _)
SumOver(w, keys, i, acc) ==
    IF i > Len(keys) THEN acc
    ELSE IF keys[i] \in DOMAIN w
         THEN SumOver(w, keys, i + 1, DblAdd(acc, w[keys[i]]))
    ELSE SumOver(w, keys, i + 1, acc)

\* sum(allocation.values()): from 0, in the order of the dict's keys
Total(w) == SumOver(w, tickers, 1, DblZero)

\* for asset in top_yield_assets: allocation[asset] += risk_weight
RECURSIVE AddRisk(_, _, _, _)
AddRisk(w, top, i, risk_weight) ==
    IF i > Len(top) THEN w
    ELSE AddRisk([w EXCEPT ![top[i]] = DblAdd(@, risk_weight)], top, i + 1, risk_weight)

\* (mutant) a selected asset's weight is assigned instead of added
RawAllocationReplaced(safe_asset, top) ==
    LET risk_weight == DblDiv(DblSub(DblOfInt(1), base_allocation),
                              DblOfInt(Len(top)))
    IN  [t \in TickerSet |->
            IF t \in Range(top) THEN risk_weight
            ELSE IF t = safe_asset THEN base_allocation
            ELSE DblZero]

RawAllocation(safe_asset, top) ==
    LET zero        == [t \in TickerSet |-> DblZero]
        based       == [zero EXCEPT ![safe_asset] = base_allocation]
        risk_weight == DblDiv(DblSub(DblOfInt(1), base_allocation),
                              DblOfInt(Len(top)))
    IN  AddRisk(based, top, 1, risk_weight)

\* if total_allocation > 0: allocation[key] /= total_allocation, every
\* quotient rounded
DividedBy(w, total_allocation) ==
    IF DblGt(total_allocation, DblZero)
    THEN [a \in DOMAIN w |-> DblDiv(w[a], total_allocation)]
    ELSE w

\* (mutant) the total is taken over the momentum universe only
NormalizeOverMomentum(w) == DividedBy(w, SumOver(w, momentum_assets, 1, DblZero))

\* the allocation divided by the sum of its values
Normalize(w) == DividedBy(w, Total(w))

(***************************************************************************)
(* TradingStrategy.run(data) of the regime engine, started with            *)
(* self.counter = c: the counter it leaves, the branch it took, what it    *)
(* returned or raised, and the safe asset, scores and selection it used.   *)
(***************************************************************************)
Result(c, path, out, safe, scores, top) ==
    [counter |-> c, path |-> path, out |-> out, safe |-> safe,
     scores |-> scores, top |-> top]

Raised(c, r) == Result(c, "raise", r, "", <<>>, <<>>)

\* (mutant) the cooldown tick forgets to decrement the counter
CooldownTickStuck(c) == Result(c, "cooldown", Val(Defensive), "", <<>>, <<>>)

\* if self.counter > 0: self.counter -= 1; return {"BIL": 1.0}
CooldownTick(c) == Result(c - 1, "cooldown", Val(Defensive), "", <<>>, <<>>)

\* (mutant) the trigger tick counts itself as a cooldown day
TriggerTickCounted(safe) ==
    Result(risk_off_wait_days + 1, "trigger", Val(Defensive), safe, <<>>, <<>>)

\* self.counter = self.risk_off_wait_days; return {"BIL": 1.0}
TriggerTick(safe) ==
    Result(risk_off_wait_days, "trigger", Val(Defensive), safe, <<>>, <<>>)

\* (mutant) a close equal to the indicator triggers too
RiskOffSignalOrEqual(current_close, current_ema, c) ==
    /\ current_ema[1] = "num"
    /\ current_close <= current_ema[2]
    /\ c = 0

\* current_close < current_ema and self.counter == 0
RiskOffSignal(current_close, current_ema, c) ==
    /\ current_ema[1] = "num"
    /\ current_close < current_ema[2]
    /\ c = 0

RiskOn(in, safe) ==
    LET scores == Momenta(momentum_assets, in)
    IN  IF AnyRaise(scores) THEN Raised(0, FirstRaise(scores))
        ELSE LET top == TopYieldAssets(scores)
             IN  IF InsufficientSignals(top, scores)
                 THEN Result(0, "fallback", Val(Only(safe)), safe, scores, top)
                 ELSE Result(0, "riskon", Val(Normalize(RawAllocation(safe, top))),
                             safe, scores, top)

Evaluate(c, in) ==
    LET ohlcv == Ohlcv(in)
    IN  IF \E i \in DOMAIN ohlcv : market_benchmark \notin DOMAIN ohlcv[i]
        THEN Raised(c, Raise("KeyError"))                 \* d[self.market_benchmark]
        ELSE IF in.vwap50 = None THEN Raised(c, Raise("TypeError"))
        ELSE IF in.ema = None THEN Raised(c, Raise("TypeError"))
        ELSE IF in.cpi = <<>> THEN Raised(c, Raise("IndexError"))
        ELSE LET current_close == NegIdx(ohlcv, 1)[market_benchmark].close
                 cpi_value     == in.cpi[Len(in.cpi)]
                 pool          == RiskOffAssets(cpi_value)
                 poolScores    == Momenta(pool, in)
             IN  IF AnyRaise(poolScores) THEN Raised(c, FirstRaise(poolScores))
                 ELSE LET safe_asset == pool[MaxIndex(poolScores, 2, 1)]
                      IN  IF RiskOffSignal(current_close, in.ema, c)
                          THEN TriggerTick(safe_asset)
                          ELSE RiskOn(in, safe_asset)

\* (mutant) the window is inspected before the cooldown counter
RunChecksWindowFirst(c, in) ==
    IF in.n < 1 THEN Result(c, "empty", Val(EmptyAllocation), "", <<>>, <<>>)
    ELSE IF c > 0 THEN CooldownTick(c)
    ELSE Evaluate(c, in)

Run(c, in) ==
    IF c > 0 THEN CooldownTick(c)
    ELSE IF in.n < 1 THEN Result(c, "empty", Val(EmptyAllocation), "", <<>>, <<>>)
    ELSE Evaluate(c, in)

(***************************************************************************)
(* The regime engine as a state machine.  counter is self.counter; call    *)
(* records the tick being returned to the host (its input, the counter it  *)
(* started with, the age it started with and its result); age counts the  *)
(* ticks since the last trigger tick (-1: none yet), saturating at AgeCap. *)
(***************************************************************************)
NoCall == [path |-> "none"]

NextAge(a, path) ==
    IF path = "trigger" THEN 0
    ELSE IF a = -1 THEN -1
    ELSE IF a < AgeCap THEN a + 1 ELSE AgeCap

InitRegime ==
    /\ counter = 0
    /\ call = NoCall
    /\ age = -1

InitManager ==
    /\ count = 0
    /\ buy_price = 0
    /\ watermark = 0
    /\ pm = NoCall

\* the crossover, random picker and fixed short strategies keep no state;
\* stateless records their tick being returned to the host
InitStateless == stateless = NoCall

Init == InitRegime /\ InitManager /\ InitStateless

\* the host calls run(data) with the data of the next bar, drawn from S
Step(S) ==
    /\ call = NoCall
    /\ \E in \in S :
          \E r \in {Run(counter, in)} :
              /\ counter' = r.counter
              /\ call' = [path |-> r.path, in |-> in, pre |-> counter, out |-> r.out,
                          safe |-> r.safe, scores |-> r.scores, top |-> r.top,
                          age |-> age]
    /\ UNCHANGED <<count, buy_price, watermark, pm, stateless>>

Tick ==
    /\ Step(Inputs)
    /\ age' = age

\* the same tick over the benchmark inputs, with the ticks since the last
\* trigger counted
TickAged ==
    /\ Step(BenchInputs)
    /\ age' = NextAge(age, call'.path)

\* the host takes the returned allocation (or logs the failure)
Return ==
    /\ call # NoCall
    /\ call' = NoCall
    /\ UNCHANGED <<counter, age, count, buy_price, watermark, pm, stateless>>

Next == Tick \/ Return

Spec == Init /\ [][Next]_vars

NextAged == TickAged \/ Return

SpecRegime == Init /\ [][NextAged]_vars

(***************************************************************************)
(* The single-asset position manager (BTC-USD).                            *)
(*                                                                         *)
(* Line 80 of the file, the final return of run, is indented with two tabs *)
(* while every other line uses spaces: Python 3 rejects the file with a    *)
(* TabError when the module is loaded.  No TradingStrategy object exists,  *)
(* run is never reached, no allocation is returned and count, buy_price    *)
(* and watermark are never written: every tick the host asks of this       *)
(* strategy ends in that error.                                            *)
(*                                                                         *)
(* An input of a tick is the tail of data["ohlcv"] (the close of the last  *)
(* bar in half units, or no bar at all) and what the platform's SMA        *)
(* returned for lengths 3 and 5: None, or the tail of the list of values.  *)
(***************************************************************************)
Closes == {0, 194, 196, 198, 200, 237, 240, 300, 302}
Bars == {<<>>} \cup {<<c>> : c \in Closes}

SmaNone == [k |-> "none", v |-> <<>>]
SmaList(s) == [k |-> "list", v |-> s]
ThreeSma ==
    {SmaNone}
    \cup {SmaList(s) : s \in {<<>>, <<Num(2)>>, <<Num(1), Num(2)>>, <<Num(2), Num(1)>>,
                              <<NaN, Num(2), Num(3)>>, <<Num(1), NaN, Num(3)>>}}
    \cup {SmaList(<<Num(a), Num(b), Num(c)>>) : a \in 1..3, b \in 1..3, c \in 1..3}
FiveSma ==
    {SmaNone} \cup {SmaList(s) : s \in {<<>>, <<NaN>>, <<Num(1)>>, <<Num(3)>>}}

ManagerInputs ==
    {[bars |-> b, three |-> t, five |-> f] : b \in Bars, t \in ThreeSma, f \in FiveSma}

\* x > y on Python floats: False when either is NaN
FloatGt(x, y) == x[1] = "num" /\ y[1] = "num" /\ x[2] > y[2]

\* sma[-j]: TypeError on None, IndexError on a list shorter than j
Subscript(sma, j) ==
    IF sma.k = "none" THEN Raise("TypeError")
    ELSE IF ~HasNeg(sma.v, j) THEN Raise("IndexError")
    ELSE Val(NegIdx(sma.v, j))

ManagerResult(c, b, w, path, out) ==
    [count |-> c, buy_price |-> b, watermark |-> w, path |-> path, out |-> out]

\* TradingStrategy.run(data): the load of the module raises TabError
\* (line 80), whatever the data; nothing is returned or written
RunManager(c, buy, wm, in) == ManagerResult(c, buy, wm, "raise", Raise("TabError"))

ManagerReturn ==
    /\ pm # NoCall
    /\ pm' = NoCall
    /\ UNCHANGED <<counter, call, age, count, buy_price, watermark, stateless>>

\* the host loads the module for a tick of the strategy
ManagerLoad ==
    /\ pm = NoCall
    /\ \E in \in ManagerInputs :
          \E r \in {RunManager(count, buy_price, watermark, in)} :
              /\ count' = r.count
              /\ buy_price' = r.buy_price
              /\ watermark' = r.watermark
              /\ pm' = [path |-> r.path, in |-> in, out |-> r.out,
                        count |-> count, buy_price |-> buy_price,
                        watermark |-> watermark]
    /\ UNCHANGED <<counter, call, age, stateless>>

(***************************************************************************)
(* The SMA crossover strategy (AAPL).  An input of a tick says whether     *)
(* every bar of data["ohlcv"] lists AAPL, and what the platform's SMA      *)
(* returned for lengths 7 and 21: None, or the tail of the list of values. *)
(***************************************************************************)
SmaTails ==
    {SmaNone, SmaList(<<>>)}
    \cup {SmaList(<<Num(a)>>) : a \in 1..3}
    \cup {SmaList(<<a, b>>) : a \in {NaN, Num(1), Num(2), Num(3)},
                              b \in {NaN, Num(1), Num(2), Num(3)}}

CrossInputs ==
    {[listed |-> l, short |-> s, long |-> g] :
        l \in BOOLEAN, s \in SmaTails, g \in SmaTails}

\* x < y on Python floats: False when either is NaN
FloatLt(x, y) == FloatGt(y, x)

CrossResult(path, out) == [path |-> path, out |-> out]
CrossWeight(x) == Val([a \in {"AAPL"} |-> DblOfInt(x)])

\* (mutant) the signal is the level fast > slow, not the cross
BullCrossLevel(s1, g1, s2, g2) == FloatGt(s1, g1)

\* sma_short[-1] > sma_long[-1] and sma_short[-2] < sma_long[-2]
BullCross(s1, g1, s2, g2) == FloatGt(s1, g1) /\ FloatLt(s2, g2)

\* sma_short[-1] < sma_long[-1] and sma_short[-2] > sma_long[-2]
BearCross(s1, g1, s2, g2) == FloatLt(s1, g1) /\ FloatGt(s2, g2)

\* lines 28-35, both lists being non-empty; the subscripts [-2] are read
\* only when the comparison of the latest values holds
Crossover(short, long) ==
    LET s1 == NegIdx(short.v, 1)
        g1 == NegIdx(long.v, 1)
        s2 == Subscript(short, 2)
        g2 == Subscript(long, 2)
    IN  IF FloatGt(s1, g1)
        THEN IF IsRaise(s2) THEN CrossResult("raise", s2)
             ELSE IF IsRaise(g2) THEN CrossResult("raise", g2)
             ELSE IF BullCross(s1, g1, s2.v, g2.v)
                  THEN CrossResult("bull", CrossWeight(1))
                  ELSE CrossResult("none", CrossWeight(0))
        ELSE IF FloatLt(s1, g1)
        THEN IF IsRaise(s2) THEN CrossResult("raise", s2)
             ELSE IF IsRaise(g2) THEN CrossResult("raise", g2)
             ELSE IF BearCross(s1, g1, s2.v, g2.v)
                  THEN CrossResult("bear", CrossWeight(0))
                  ELSE CrossResult("none", CrossWeight(0))
        ELSE CrossResult("none", CrossWeight(0))

\* TradingStrategy.run(data) of the crossover strategy
RunCross(in) ==
    IF ~in.listed THEN CrossResult("raise", Raise("KeyError"))
    ELSE IF in.short.k = "none" THEN CrossResult("raise", Raise("TypeError"))
    ELSE IF ~(PyLen(in.short.v) > 0) THEN CrossResult("none", CrossWeight(0))
    ELSE IF in.long.k = "none" THEN CrossResult("raise", Raise("TypeError"))
    ELSE IF ~(PyLen(in.long.v) > 0) THEN CrossResult("none", CrossWeight(0))
    ELSE Crossover(in.short, in.long)

CrossTick ==
    /\ stateless = NoCall
    /\ \E in \in CrossInputs :
          \E r \in {RunCross(in)} :
              stateless' = [strategy |-> "crossover", path |-> r.path,
                            in |-> in, out |-> r.out]
    /\ UNCHANGED <<counter, call, age, count, buy_price, watermark, pm>>

(***************************************************************************)
(* Successive ticks of the crossover strategy over a growing window: each  *)
(* tick's window extends the previous one by one bar, so the latest value  *)
(* of each SMA list becomes the previous value of the next tick's list.    *)
(* A list the platform could not compute yet (None) stays None or starts   *)
(* with NaN as its previous value.  before is what the previous tick did:  *)
(* "long" (weight 1), "flat" (weight 0), "raise", or "none" (first tick).  *)
(***************************************************************************)
Outcome(out) ==
    IF IsRaise(out) THEN "raise"
    ELSE IF out = CrossWeight(1) THEN "long" ELSE "flat"

SmaValues == {NaN, Num(1), Num(2), Num(3)}

ExtendSma(sma) ==
    IF sma.k = "none"
    THEN {SmaNone} \cup {SmaList(<<NaN, v>>) : v \in SmaValues}
    ELSE IF sma.v = <<>> THEN {SmaList(<<v>>) : v \in SmaValues}
    ELSE {SmaList(<<NegIdx(sma.v, 1), v>>) : v \in SmaValues}

Extensions(in) ==
    {[listed |-> in.listed, short |-> s, long |-> g] :
        s \in ExtendSma(in.short), g \in ExtendSma(in.long)}

CrossChainTick ==
    /\ \E in \in (IF stateless = NoCall THEN CrossInputs
                  ELSE Extensions(stateless.in)) :
          \E r \in {RunCross(in)} :
              stateless' = [strategy |-> "crossover", path |-> r.path,
                            in |-> in, out |-> r.out,
                            before |-> IF stateless = NoCall THEN "none"
                                       ELSE Outcome(stateless.out)]
    /\ UNCHANGED <<counter, call, age, count, buy_price, watermark, pm>>

SpecChain == Init /\ [][CrossChainTick]_vars

(***************************************************************************)
(* The random picker (AAPL, MSFT).  `assets' is a property, so self.assets *)
(* is the list itself and the call self.assets() of line 18 raises         *)
(* TypeError before any weight is written; choice is what random.choice    *)
(* would draw.                                                             *)
(***************************************************************************)
PickerAssets == <<"AAPL", "MSFT">>

\* TradingStrategy.run(data_functions) of the random picker
RunPicker(choice) == CrossResult("raise", Raise("TypeError"))

PickerTick ==
    /\ stateless = NoCall
    /\ \E choice \in Range(PickerAssets) :
          \E r \in {RunPicker(choice)} :
              stateless' = [strategy |-> "picker", path |-> r.path,
                            in |-> choice, out |-> r.out]
    /\ UNCHANGED <<counter, call, age, count, buy_price, watermark, pm>>

(***************************************************************************)
(* The fixed short (GOOGL).  An input of a tick says which of the keys     *)
(* "holdings" and "ohlcv" the data carries.                                *)
(***************************************************************************)
ShortInputs == {[holdings |-> h, ohlcv |-> o] : h \in BOOLEAN, o \in BOOLEAN}

\* TradingStrategy.run(data) of the fixed short
RunShort(in) ==
    IF ~in.holdings THEN CrossResult("raise", Raise("KeyError"))
    ELSE IF ~in.ohlcv THEN CrossResult("raise", Raise("KeyError"))
    ELSE CrossResult("short", Val([a \in {"GOOGL"} |-> DblDivInt(-1, 2)]))

ShortTick ==
    /\ stateless = NoCall
    /\ \E in \in ShortInputs :
          \E r \in {RunShort(in)} :
              stateless' = [strategy |-> "short", path |-> r.path,
                            in |-> in, out |-> r.out]
    /\ UNCHANGED <<counter, call, age, count, buy_price, watermark, pm>>

StatelessReturn ==
    /\ stateless # NoCall
    /\ stateless' = NoCall
    /\ UNCHANGED <<counter, call, age, count, buy_price, watermark, pm>>

NextStateless == CrossTick \/ PickerTick \/ ShortTick \/ StatelessReturn

SpecStateless == Init /\ [][NextStateless]_vars

(***************************************************************************)
(* The host runs one strategy object per deployment: a strategy ticks      *)
(* only while the objects of the other strategies are as constructed.      *)
(***************************************************************************)
RegimeFresh == counter = 0 /\ call = NoCall
ManagerFresh == count = 0 /\ buy_price = 0 /\ watermark = 0 /\ pm = NoCall
StatelessIdle == stateless = NoCall

\* the regime engine's data under the host: the benchmark inputs and the
\* score inputs over a flat universe with a low macro value
HostInputs ==
    BenchInputs
    \cup {Input(mom_long, sc, Num(1), Num(0), <<2>>) :
             sc \in {x \in MixedScenarios : x.d = FFlat}}

HostRegimeTick ==
    /\ ManagerFresh /\ StatelessIdle
    /\ Step(HostInputs)
    /\ age' = age
HostManagerLoad == RegimeFresh /\ StatelessIdle /\ ManagerLoad
HostCrossTick == RegimeFresh /\ ManagerFresh /\ CrossTick
HostPickerTick == RegimeFresh /\ ManagerFresh /\ PickerTick
HostShortTick == RegimeFresh /\ ManagerFresh /\ ShortTick

NextHost ==
    \/ HostRegimeTick \/ Return
    \/ HostManagerLoad \/ ManagerReturn
    \/ HostCrossTick \/ HostPickerTick \/ HostShortTick \/ StatelessReturn

SpecHost == Init /\ [][NextHost]_vars

(***************************************************************************)
(* Properties of the regime engine.                                        *)
(***************************************************************************)
Ticked == call # NoCall
Returned == Ticked /\ call.out.k = "val"
IsTick == call = NoCall /\ call' # NoCall
Forced == call'.path = "cooldown" /\ call'.out = Val(Defensive)

\* C1 (as stated): after a trigger sets counter = N, the next N-1 ticks
\* return the defensive allocation with the counter decreasing by 1 each,
\* and the N-th tick after the trigger is not forced by the counter.
C1_CooldownEndsAtTickN ==
    [][IsTick =>
        /\ age \in 0..(risk_off_wait_days - 2) =>
              Forced /\ counter = risk_off_wait_days - age /\ counter' = counter - 1
        /\ age = risk_off_wait_days - 1 => call'.path # "cooldown"]_vars

\* C1 (amended): after a trigger sets counter = N, each of the next N ticks
\* returns the defensive allocation whatever the data, with the counter
\* decreasing by exactly 1 per tick; the (N+1)-th tick after the trigger is
\* the first one evaluated normally.
C1_CooldownLastsNTicks ==
    [][IsTick =>
        /\ call'.path = "trigger" => counter' = risk_off_wait_days
        /\ age \in 0..(risk_off_wait_days - 1) =>
              Forced /\ counter = risk_off_wait_days - age /\ counter' = counter - 1
        /\ age = risk_off_wait_days =>
              counter = 0 /\ call'.path # "cooldown"]_vars

\* the N-th tick after a trigger was forced, and the tick after it was a
\* normally evaluated risk-on tick
C1_Witness ==
    /\ Ticked
    /\ age = risk_off_wait_days + 1
    /\ call.pre = 0
    /\ call.path = "riskon"

\* C2: every returned allocation has every asset of the universe as a key
C2_UniverseComplete ==
    Returned => DOMAIN call.out.v = TickerSet

MissingData(in) ==
    \/ \E i \in 1..in.n : market_benchmark \notin Listed(in, i)
    \/ in.cpi = <<>>

ZeroAllocation(w) == \A a \in DOMAIN w : DblEq(w[a], DblZero)

\* C3: a tick whose input lacks the benchmark's bar or the macro series
\* still returns an allocation, and an empty/zero one unless the cooldown
\* forces the defensive allocation
C3_MissingDataGivesAllocation ==
    (Ticked /\ MissingData(call.in)) =>
        /\ call.out.k = "val"
        /\ call.path # "cooldown" => ZeroAllocation(call.out.v)

DblAbs(x) == <<Abs(x[1]), x[2], x[3]>>

\* |x - 1| <= 1e-9: the difference times 10^9 is at most 1 (rounding the
\* product keeps its order with 1)
WithinEpsilonOfOne(x) ==
    ~DblGt(DblMul(DblAbs(DblSub(x, DblOfInt(1))), DblOfInt(10 ^ 9)),
           DblOfInt(1))

\* C4: on every tick that constructs weights with a positive raw total the
\* sum of the returned weights, added as sum(allocation.values()) adds
\* them, is 1 within 1e-9
C4_WeightsSumToOne ==
    (Ticked /\ call.path = "riskon"
       /\ DblGt(Total(RawAllocation(call.safe, call.top)), DblZero)) =>
        WithinEpsilonOfOne(Total(call.out.v))

\* a constructed allocation whose safe asset is also one of the top-3: its
\* raw total is below 1 and its returned weights sum to just above 1
C4_Witness ==
    /\ Ticked
    /\ call.path = "riskon"
    /\ call.safe \in Range(call.top)
    /\ DblLt(Total(RawAllocation(call.safe, call.top)), DblOfInt(1))
    /\ DblGt(Total(call.out.v), DblOfInt(1))
    /\ WithinEpsilonOfOne(Total(call.out.v))

\* C5: the momentum scorer never raises, for any asset and any window
\* (the indicator value itself being available)
C5_MomentumNeverRaises ==
    Ticked =>
        \A a \in TickerSet :
            Vwap5(call.in, a) # None =>
                ~IsRaise(CalculateMomentum(a, Ohlcv(call.in), Vwap5(call.in, a)))

Evaluated == Ticked /\ call.path \in {"riskon", "fallback"}
PositionIn(seq, x) == IF x \in Range(seq) THEN IndexOf(seq, x) ELSE Len(seq) + 1
Tied(i, j) == DblEq(call.scores[i].v, call.scores[j].v)

\* C6: of two momentum assets with identical scores the one earlier in
\* momentum_assets is ranked first, and is the one selected if only one fits
C6_TiesKeepUniverseOrder ==
    Evaluated =>
        \A i, j \in 1..Len(momentum_assets) :
            (i < j /\ Tied(i, j) /\ momentum_assets[j] \in Range(call.top)) =>
                PositionIn(call.top, momentum_assets[i])
                    < PositionIn(call.top, momentum_assets[j])

\* two tied assets of which only the earlier one is selected
C6_Witness ==
    /\ Ticked
    /\ call.path = "riskon"
    /\ \E i, j \in 1..Len(momentum_assets) :
          /\ i < j
          /\ Tied(i, j)
          /\ momentum_assets[i] \in Range(call.top)
          /\ momentum_assets[j] \notin Range(call.top)

RealScored ==
    {momentum_assets[i] : i \in {j \in 1..Len(momentum_assets) :
                                    ~DblEq(call.scores[j].v, SentinelScore)}}

MomentumShare == DblDiv(DblSub(DblOfInt(1), base_allocation), DblOfInt(TopK))

\* C7 (as stated): with one or two non-sentinel scores the selected set is
\* exactly the assets with real scores and they receive the momentum share
C7_OnlyRealScoresSelected ==
    (Evaluated /\ Cardinality(RealScored) \in 1..(TopK - 1)) =>
        /\ Range(call.top) = RealScored
        /\ \A a \in RealScored :
              a \in DOMAIN call.out.v /\ ~DblLt(call.out.v[a], MomentumShare)

\* C7 (amended): with fewer than k = 3 non-sentinel scores no momentum
\* share is distributed: the tick returns {safe_asset: 1.0}
C7_FewRealScoresFallBack ==
    (Evaluated /\ Cardinality(RealScored) < TopK) =>
        /\ call.path = "fallback"
        /\ call.out = Val(Only(call.safe))

\* a tick with exactly two real scores that fell back to the safe asset
C7_Witness ==
    /\ Ticked
    /\ call.path = "fallback"
    /\ Cardinality(RealScored) = TopK - 1
    /\ call.out = Val(Only(call.safe))

\* C12: a tick that starts with counter > 0 returns the defensive allocation
\* and decrements the counter by exactly 1 without evaluating the trigger,
\* whatever the data (empty window, missing benchmark or macro data included)
C12_CooldownIgnoresData ==
    (Ticked /\ call.pre > 0) =>
        /\ call.path = "cooldown"
        /\ call.out = Val(Defensive)
        /\ counter = call.pre - 1

\* a forced tick on data for which a tick with counter = 0 would have
\* failed or returned the empty allocation
C12_Witness ==
    /\ Ticked
    /\ call.pre > 0
    /\ Run(0, call.in).path \in {"raise", "empty"}
    /\ call.out = Val(Defensive)
    /\ counter = call.pre - 1

\* the last tick started with counter = 0 and returned an allocation for a
\* non-empty window
EvaluatedComplete ==
    /\ Ticked
    /\ call.pre = 0
    /\ call.out.k = "val"
    /\ call.path # "empty"

BenchmarkClose == NegIdx(Ohlcv(call.in), 1)[market_benchmark].close
BelowReference == FloatLt(Num(BenchmarkClose), call.in.ema)

\* C15: a tick with counter = 0 and complete data sets counter = N and
\* returns the defensive allocation if and only if the benchmark's latest
\* close is below the reference indicator; otherwise the counter stays 0 and
\* the risk-on branch returns; this holds again on the first tick after a
\* cooldown has run out
C15_TriggerIffBelowReference ==
    EvaluatedComplete =>
        IF BelowReference
        THEN /\ call.path = "trigger"
             /\ counter = risk_off_wait_days
             /\ call.out = Val(Defensive)
        ELSE /\ counter = 0
             /\ call.path \in {"riskon", "fallback"}

\* the first tick after a cooldown ran out found the condition still true
\* and started a new full cooldown
C15_Witness ==
    /\ EvaluatedComplete
    /\ call.age = risk_off_wait_days
    /\ BelowReference
    /\ call.path = "trigger"
    /\ counter = risk_off_wait_days

\* the weight the allocation rule gives asset a for safe asset and
\* selection, computed in floats as lines 160-164 do
ExpectedWeight(a, safe, top) ==
    IF a = safe /\ a \in Range(top)
    THEN DblAdd(base_allocation,
                DblDiv(DblSub(DblOfInt(1), base_allocation), DblOfInt(Len(top))))
    ELSE IF a = safe THEN base_allocation
    ELSE IF a \in Range(top)
         THEN DblDiv(DblSub(DblOfInt(1), base_allocation), DblOfInt(Len(top)))
    ELSE DblZero

\* the next float above x > 0
DblNextUp(x) == DblCarry(x[1], x[3], BAdd(x[2], <<>>, 1))

\* x, or x rounded up by one unit in its last place (0 stays 0)
UpToOneUlpAbove(w, x) ==
    \/ DblEq(w, x)
    \/ x # DblZero /\ DblEq(w, DblNextUp(x))

\* C16 (as stated): on a risk-on tick with k selected assets and b = 0.3
\* the safe asset gets b + (1-b)/k if it is also selected and b otherwise,
\* every other selected asset gets (1-b)/k and every other asset of the
\* universe 0
C16_RiskOnWeights ==
    (Ticked /\ call.path = "riskon") =>
        /\ DOMAIN call.out.v = TickerSet
        /\ \A a \in TickerSet :
              DblEq(call.out.v[a], ExpectedWeight(a, call.safe, call.top))

\* C16 (amended): each returned weight is that value or the float next
\* above it, as the division by a raw total of 1.0 or 0.9999999999999999
\* leaves it; the weight of every other asset is exactly 0
C16_RiskOnWeightsRounded ==
    (Ticked /\ call.path = "riskon") =>
        /\ DOMAIN call.out.v = TickerSet
        /\ \A a \in TickerSet :
              UpToOneUlpAbove(call.out.v[a],
                              ExpectedWeight(a, call.safe, call.top))

\* the safe asset is one of the three selected assets and holds both
\* shares, rounded up by the division, next to a selected asset that holds
\* the rounded momentum share
C16_Witness ==
    /\ Ticked
    /\ call.path = "riskon"
    /\ Len(call.top) = TopK
    /\ call.safe \in Range(call.top)
    /\ DblEq(call.out.v[call.safe],
             DblNextUp(DblAdd(base_allocation, MomentumShare)))
    /\ \E a \in Range(call.top) :
          a # call.safe /\ DblEq(call.out.v[a], DblNextUp(MomentumShare))

\* the last tick chose a safe asset
SafeChosen == Ticked /\ call.path \in {"trigger", "riskon", "fallback"}

LatestCpi == call.in.cpi[Len(call.in.cpi)]
LowInflationPool == <<"TLT", "TIP", "BIL">>
HighInflationPool == <<"BIL", "UUP">>
ClaimedPool ==
    IF LatestCpi < inflation_threshold THEN LowInflationPool ELSE HighInflationPool
PoolScore(a) == CalculateMomentum(a, Ohlcv(call.in), Vwap5(call.in, a)).v

\* C17: the safe asset belongs to [TLT, TIP, BIL] when CPI is below 3 and
\* to [BIL, UUP] when CPI is 3 or more; no asset of the pool has a higher
\* score, and every asset earlier in the pool has a strictly lower one
C17_SafeAssetFromPool ==
    SafeChosen =>
        /\ call.safe \in Range(ClaimedPool)
        /\ \A i \in 1..Len(ClaimedPool) :
              /\ ~DblGt(PoolScore(ClaimedPool[i]), PoolScore(call.safe))
              /\ i < IndexOf(ClaimedPool, call.safe) =>
                    DblLt(PoolScore(ClaimedPool[i]), PoolScore(call.safe))

\* CPI equal to the threshold and every score of the pool the sentinel: the
\* first asset of the second pool is the safe asset
C17_Witness ==
    /\ SafeChosen
    /\ LatestCpi = inflation_threshold
    /\ \A i \in 1..Len(HighInflationPool) :
          DblEq(PoolScore(HighInflationPool[i]), SentinelScore)
    /\ call.safe = HighInflationPool[1]

\* C23: in every reachable state 0 <= counter <= risk_off_wait_days, and a
\* tick leaves the counter at risk_off_wait_days only if it started with
\* counter = 0 and triggered
C23_CounterInRange ==
    /\ counter \in 0..risk_off_wait_days
    /\ (Ticked /\ counter = risk_off_wait_days) =>
          (call.pre = 0 /\ call.path = "trigger")
    /\ (Ticked /\ call.path = "trigger") => counter = risk_off_wait_days

\* the last forced tick of a cooldown brought the counter from 1 to 0 on
\* data that would trigger a tick with counter = 0
C23_Witness ==
    /\ Ticked
    /\ call.age = risk_off_wait_days - 1
    /\ call.pre = 1
    /\ counter = 0
    /\ Run(0, call.in).path = "trigger"

\* the scorer had no valid score for asset a and returned the sentinel: the
\* asset was missing from a bar, the window was too short, or the indicator
\* was NaN
NoValidScore(in, a) ==
    \/ ~FeedOf(in.sc, a).present
    \/ in.n < mom_long
    \/ Vwap5(in, a) = NaN

\* C24: on a risk-on tick no asset whose score is the sentinel -999 receives
\* a share of the momentum weight, also when real scores are below -999
C24_SentinelGetsNoShare ==
    (Ticked /\ call.path = "riskon") =>
        \A i \in 1..Len(momentum_assets) :
            (NoValidScore(call.in, momentum_assets[i])
               /\ DblEq(call.scores[i].v, SentinelScore)) =>
                /\ momentum_assets[i] \notin Range(call.top)
                /\ DblLt(call.out.v[momentum_assets[i]], MomentumShare)

(***************************************************************************)
(* Properties of the crossover strategy.                                   *)
(***************************************************************************)
\* the last tick was a crossover tick given AAPL bars and two SMA lists
\* with a latest and a previous value each
CrossEvaluated ==
    /\ stateless # NoCall
    /\ stateless.strategy = "crossover"
    /\ stateless.in.listed
    /\ stateless.in.short.k = "list" /\ Len(stateless.in.short.v) >= 2
    /\ stateless.in.long.k = "list" /\ Len(stateless.in.long.v) >= 2

FastNow == NegIdx(stateless.in.short.v, 1)
SlowNow == NegIdx(stateless.in.long.v, 1)
FastBefore == NegIdx(stateless.in.short.v, 2)
SlowBefore == NegIdx(stateless.in.long.v, 2)

\* x <= y on Python floats: False when either is NaN
FloatLe(x, y) == x[1] = "num" /\ y[1] = "num" /\ x[2] <= y[2]

\* C11: a bull cross is signalled (weight 1) exactly when the latest fast
\* value exceeds the latest slow value and the previous values satisfied
\* fast <= slow; a bear cross is detected exactly when latest fast < slow
\* and previous fast >= slow
C11_CrossIncludesEquality ==
    CrossEvaluated =>
        /\ (stateless.out = CrossWeight(1)) <=>
              (FloatGt(FastNow, SlowNow) /\ FloatLe(FastBefore, SlowBefore))
        /\ (stateless.path = "bear") <=>
              (FloatLt(FastNow, SlowNow) /\ FloatLe(SlowBefore, FastBefore))

(***************************************************************************)
(* Properties of the strategies' ticks taken together.                     *)
(***************************************************************************)
\* the keys of an allocation in the order of the dict: the universe's order
\* for the regime engine's vectors; the other allocations have one key
KeysOf(w) ==
    IF DOMAIN w \subseteq TickerSet THEN tickers
    ELSE [i \in 1..1 |-> CHOOSE a \in DOMAIN w : TRUE]

RECURSIVE AbsSumOver(_, _, _, _)
AbsSumOver(w, keys, i, acc) ==
    IF i > Len(keys) THEN acc
    ELSE IF keys[i] \in DOMAIN w
         THEN AbsSumOver(w, keys, i + 1, DblAdd(acc, DblAbs(w[keys[i]])))
    ELSE AbsSumOver(w, keys, i + 1, acc)

\* the sum of the absolute weights of an allocation, added in floats:
\* sum(abs(v) for v in allocation.values())
AbsSum(w) == AbsSumOver(w, KeysOf(w), 1, DblZero)
WithinCap(out) == out.k = "val" => ~DblGt(AbsSum(out.v), DblOfInt(1))

\* C14: every allocation returned by a tick of any strategy (regime engine,
\* position manager, crossover, random picker, fixed short) has a sum of
\* absolute weights of at most 1
C14_LeverageCap ==
    /\ Ticked => WithinCap(call.out)
    /\ pm # NoCall => WithinCap(pm.out)
    /\ stateless # NoCall => WithinCap(stateless.out)

\* C22: over windows that each extend the previous one by one bar the
\* crossover strategy never returns weight 1 on two consecutive ticks, and
\* a tick without a fresh bull cross that returns an allocation returns 0
C22_NoTwoLongTicksInARow ==
    [][/\ (stateless # NoCall /\ Outcome(stateless.out) = "long") =>
              Outcome(stateless'.out) # "long"
       /\ stateless'.path \notin {"bull", "raise"} =>
              stateless'.out = CrossWeight(0)]_vars

\* the tick after a bull cross found fast still above slow and returned 0
C22_Witness ==
    /\ stateless # NoCall
    /\ stateless.before = "long"
    /\ CrossEvaluated
    /\ FloatGt(FastNow, SlowNow)
    /\ stateless.out = CrossWeight(0)

====
